---- MODULE Spec2Model ----
(***************************************************************************)
(* The Todo application.                                                   *)
(*                                                                         *)
(* Backend: TodoController -> TodoService -> the Mongoose model of the     *)
(* 'todos' collection (schema Todo, timestamps: true).                     *)
(* Frontend: the Home component of app/page.tsx, its state hooks, its      *)
(* handlers and the HTTP requests they have in flight.                     *)
(*                                                                         *)
(* A document is a record with the fields _id, title, completed,           *)
(* createdAt, updatedAt and, when it was supplied, description.  A JSON     *)
(* request body is a record that has exactly the fields the client sent;   *)
(* the controller hands it to the service, and the service to the model,   *)
(* as it arrived.                                                          *)
(***************************************************************************)
EXTENDS Integers, FiniteSets, Sequences, TLC

VARIABLES
    todos,      \* the 'todos' collection: a set of documents
    nextId,     \* the ObjectId the driver generates for the next new document
    now,        \* the server clock read by the timestamps plugin
    deleted,    \* history: the _ids removed by a successful delete
    last,       \* the last request and the response the endpoint gave to it
    req,        \* the method and the path of the last request: item is TRUE
                \* for /todos/:id and FALSE for /todos
    calls,      \* requests served concurrently: each handler's position
    order,      \* history: the calls in the order the store applied them
    mirror,     \* Home: the state `todos`, the client's copy of the list
    title,      \* Home: the title input of the create form
    description,        \* Home: the description input of the create form
    editingId,          \* Home: the _id of the todo in edit mode, or null
    editTitle,          \* Home: the title input of the edit form
    editDescription,    \* Home: the description input of the edit form
    loading,    \* Home: the loading flag
    net,        \* the fetch() calls of the page that have not settled yet
    nreq,       \* the number of fetch() calls the page has made
    nact,       \* the number of user actions that sent a request
    lastFetch,  \* history: the list fetch issued last and its response
    ev          \* the step of an async handler, and the alert it showed,
                \* when that was the last thing to happen

callVars == <<calls, order>>

pageVars ==
    <<mirror, title, description, editingId, editTitle, editDescription,
      loading>>

netVars == <<net, nreq, nact, lastFetch, ev>>

clientVars == <<pageVars, netVars>>

vars ==
    <<todos, nextId, now, deleted, last, req, calls, order, mirror, title,
      description, editingId, editTitle, editDescription, loading, net, nreq,
      nact, lastFetch, ev>>

-----------------------------------------------------------------------------
(* Bounds *)

MaxId == 1          \* ObjectIds the generator hands out: 1..MaxId
MaxTime == 1        \* the clock runs over 0..MaxTime
NCalls == 3         \* requests served concurrently: 1..NCalls
MaxActions == 1     \* user actions of the page that send a request
MaxToggles == 3     \* presses of the checkbox of one todo

-----------------------------------------------------------------------------
(* Input domains *)

Titles == {"", "a"}
Descriptions == {"d"}
FutureTime == MaxTime + 1   \* a client-supplied date later than any clock value
ForeignId == 0              \* a well-formed ObjectId the generator never yields
MalformedId == -1           \* a string that is not a 24-digit hex ObjectId
NoId == -2                  \* the request has no :id parameter
GeneratedIds == 1..MaxId
WellFormedIds == GeneratedIds \cup {ForeignId}

NoBody == [f \in {} |-> 0]

\* the fields the DTO types of the service declare
CreateDtoFields == {"title", "description"}
UpdateDtoFields == {"title", "description", "completed"}

Opt(field, values) == {NoBody} \cup {[f \in {field} |-> v] : v \in values}

\* bodies that carry declared fields only
DeclaredCreateBodies ==
    {t @@ d : t \in Opt("title", Titles), d \in Opt("description", Descriptions)}

DeclaredUpdateBodies ==
    {t @@ d @@ c : t \in Opt("title", Titles),
                   d \in Opt("description", Descriptions),
                   c \in Opt("completed", BOOLEAN)}

\* bodies with one more field than the DTO type declares; nothing filters them
ExtraCreateBodies(issued) ==
    {[title |-> "a"] @@ x :
        x \in {[completed |-> TRUE], [createdAt |-> FutureTime]}
              \cup {[_id |-> i] : i \in issued}}

ExtraUpdateBodies(issued) ==
    {[completed |-> TRUE] @@ x :
        x \in {[createdAt |-> FutureTime], [updatedAt |-> FutureTime]}
              \cup {[_id |-> i] : i \in issued \cup {ForeignId}}}

\* PUT requests: every body to every identifier the generator can yield, one
\* body to the two identifiers that never match
UpdateRequests(issued) ==
    (GeneratedIds \X (DeclaredUpdateBodies \cup ExtraUpdateBodies(issued)))
      \cup ({ForeignId, MalformedId} \X {[completed |-> TRUE]})

\* the requests of the concurrent runs
CallIds == 1..NCalls
ConcCreateBodies == {[title |-> "a"], [title |-> "a", description |-> "d"]}
ConcUpdateBodies ==
    {[completed |-> TRUE], [completed |-> FALSE],
     [title |-> "a", description |-> "d"]}
ConcTargets == {1}

IdleCall ==
    [op |-> "none", pc |-> "idle", id |-> NoId, body |-> NoBody,
     hit |-> FALSE, error |-> "none"]

InitCalls ==
    /\ calls = [i \in CallIds |-> IdleCall]
    /\ order = <<>>

-----------------------------------------------------------------------------
(* The Mongoose model of schema Todo *)

\* a generator that hands out the same ObjectId again
NextObjectIdStuck(counter) == counter

\* the driver's ObjectId generator: every new document gets the next value
NextObjectId(counter) == counter + 1


Restrict(f, S) == [k \in DOMAIN f \cap S |-> f[k]]

ById(id) == {d \in todos : d._id = id}

\* a required check that accepts any title that is present
RequiredPresentOnly(doc) == "title" \in DOMAIN doc

\* @Prop({ required: true }) title: a string path is present when non-empty
Required(doc) == "title" \in DOMAIN doc /\ doc.title # ""

\* a schema whose default for completed is true
DefaultCompletedTrue(body) ==
    IF "completed" \in DOMAIN body THEN body.completed ELSE TRUE

\* @Prop({ default: false }) completed
DefaultCompleted(body) ==
    IF "completed" \in DOMAIN body THEN body.completed ELSE FALSE

\* timestamps: true, on save of a new document: createdAt is stamped unless
\* the document already carries one, and updatedAt is set to createdAt
StampNew(body, ts) ==
    LET created == IF "createdAt" \in DOMAIN body THEN body.createdAt ELSE ts
    IN  [createdAt |-> created, updatedAt |-> created]

\* new this.todoModel(createTodoDto): schema paths are taken from the body,
\* _id is generated when the body has none
NewDoc(body, oid, ts) ==
    [_id |-> IF "_id" \in DOMAIN body THEN body._id ELSE oid,
     completed |-> DefaultCompleted(body)]
      @@ StampNew(body, ts)
      @@ Restrict(body, {"title", "description"})

\* an update that lets a createdAt of the body through to the document
ApplyUpdateWithCreatedAt(doc, body, ts) ==
    [updatedAt |-> ts]
      @@ Restrict(body, {"title", "description", "completed", "createdAt"})
      @@ doc

\* an update that replaces the document by the body (overwrite), keeping
\* only _id and createdAt
ApplyUpdateReplace(doc, body, ts) ==
    [_id |-> doc._id, createdAt |-> doc.createdAt, updatedAt |-> ts,
     completed |-> DefaultCompleted(body)]
      @@ Restrict(body, {"title", "description"})

\* findByIdAndUpdate(id, update): the update is cast to a $set of the schema
\* paths it names; timestamps drops createdAt from it and sets updatedAt
ApplyUpdate(doc, body, ts) ==
    [updatedAt |-> ts]
      @@ Restrict(body, {"title", "description", "completed"})
      @@ doc

\* { new: true }: the query resolves to the document after the update
Returned(before, after) == after

\* a delete that finds the document and leaves it in the collection
RemoveNothing(coll, doc) == coll

\* findByIdAndDelete removes the matched document
Remove(coll, doc) == coll \ {doc}

-----------------------------------------------------------------------------
(* The endpoint layer *)

\* an endpoint whose delete handler answers 204 No Content
StatusOfDeleteNoContent(op, error) ==
    IF error = "NotFoundException" THEN 404
    ELSE IF error # "none" THEN 500
    ELSE IF op = "create" THEN 201
    ELSE IF op = "delete" THEN 204 ELSE 200

\* Nest answers a resolved @Post handler with 201 and any other resolved
\* handler with 200; an exception that is not an HttpException becomes 500,
\* and the NotFoundException of the router becomes 404
StatusOf(op, error) ==
    IF error = "NotFoundException" THEN 404
    ELSE IF error # "none" THEN 500
    ELSE IF op = "create" THEN 201 ELSE 200

Response(op, id, body, hit, error, result) ==
    [op |-> op, id |-> id, body |-> body, hit |-> hit,
     status |-> StatusOf(op, error), error |-> error, result |-> result]

-----------------------------------------------------------------------------

InitStore ==
    /\ todos = {}
    /\ nextId = 1
    /\ now = 0
    /\ deleted = {}
    /\ last = Response("none", NoId, NoBody, FALSE, "none", {})
    /\ req = [method |-> "none", item |-> FALSE]

\* the Home component after its first render: the initial values of the
\* state hooks, no request made yet
InitPage ==
    /\ mirror = [list |-> TRUE, items |-> {}]
    /\ title = ""
    /\ description = ""
    /\ editingId = NoId
    /\ editTitle = ""
    /\ editDescription = ""
    /\ loading = FALSE
    /\ net = {}
    /\ nreq = 0
    /\ nact = 0
    /\ lastFetch = [seq |-> 0, stage |-> "none", list |-> FALSE, items |-> {}]
    /\ ev = [fn |-> "none", phase |-> "none", seq |-> 0, alert |-> "none"]

\* the last thing to happen was not a step of an async handler
NoStep == [fn |-> "none", phase |-> "none", seq |-> 0, alert |-> "none"]

Init == InitStore /\ InitCalls /\ InitPage

Issued == 1..(nextId - 1)

\* TodoService.create
\* (the ObjectId of a document that fails validation is neither stored nor
\* returned, so the generator is advanced by a successful save only)
SvcCreate(body) ==
    LET doc == NewDoc(body, nextId, now)
        generated == "_id" \notin DOMAIN body /\ Required(doc)
    IN  /\ generated => nextId <= MaxId
        /\ nextId' = IF generated THEN NextObjectId(nextId) ELSE nextId
        /\ IF ~Required(doc)
           THEN /\ last' = Response("create", NoId, body, FALSE,
                                    "ValidationError", {})
                /\ UNCHANGED todos
           ELSE IF ById(doc._id) # {}
           THEN /\ last' = Response("create", NoId, body, FALSE,
                                    "MongoServerError", {})
                /\ UNCHANGED todos
           ELSE /\ todos' = todos \cup {doc}
                /\ last' = Response("create", NoId, body, FALSE,
                                    "none", {doc})
        /\ UNCHANGED <<now, deleted>>

\* a findAll that rejects when the collection holds no document
SvcFindAllRejectsEmpty ==
    /\ last' = Response("findAll", NoId, NoBody, FALSE,
                        IF todos = {} THEN "NotFoundError" ELSE "none", todos)
    /\ UNCHANGED <<todos, nextId, now, deleted>>

\* TodoService.findAll
SvcFindAll ==
    /\ last' = Response("findAll", NoId, NoBody, FALSE, "none", todos)
    /\ UNCHANGED <<todos, nextId, now, deleted>>

\* TodoService.findOne
SvcFindOne(id) ==
    /\ IF id = MalformedId
       THEN last' = Response("findOne", id, NoBody, FALSE, "CastError", {})
       ELSE last' = Response("findOne", id, NoBody, ById(id) # {},
                             "none", ById(id))
    /\ UNCHANGED <<todos, nextId, now, deleted>>

\* TodoService.update
SvcUpdate(id, body) ==
    /\ IF id = MalformedId
       THEN /\ last' = Response("update", id, body, FALSE, "CastError", {})
            /\ UNCHANGED todos
       ELSE IF ById(id) = {}
       THEN /\ last' = Response("update", id, body, FALSE, "none", {})
            /\ UNCHANGED todos
       ELSE LET doc == CHOOSE d \in ById(id) : TRUE
                after == ApplyUpdate(doc, body, now)
            IN  IF "_id" \in DOMAIN body /\ body._id # doc._id
                THEN /\ last' = Response("update", id, body, TRUE,
                                         "MongoServerError", {})
                     /\ UNCHANGED todos
                ELSE /\ todos' = (todos \ {doc}) \cup {after}
                     /\ last' = Response("update", id, body, TRUE,
                                         "none", {Returned(doc, after)})
    /\ UNCHANGED <<nextId, now, deleted>>

\* TodoService.delete
SvcDelete(id) ==
    /\ IF id = MalformedId
       THEN /\ last' = Response("delete", id, NoBody, FALSE, "CastError", {})
            /\ UNCHANGED <<todos, deleted>>
       ELSE IF ById(id) = {}
       THEN /\ last' = Response("delete", id, NoBody, FALSE, "none", {})
            /\ UNCHANGED <<todos, deleted>>
       ELSE LET doc == CHOOSE d \in ById(id) : TRUE
            IN  /\ todos' = Remove(todos, doc)
                /\ deleted' = deleted \cup {id}
                /\ last' = Response("delete", id, NoBody, TRUE,
                                    "none", {doc})
    /\ UNCHANGED <<nextId, now>>

\* a router that also maps PATCH /todos/:id to update
RoutePatchToUpdate(method, item) ==
    IF method = "POST" /\ ~item THEN "create"
    ELSE IF method = "GET" /\ ~item THEN "findAll"
    ELSE IF method = "GET" /\ item THEN "findOne"
    ELSE IF method \in {"PUT", "PATCH"} /\ item THEN "update"
    ELSE IF method = "DELETE" /\ item THEN "delete"
    ELSE "none"

\* the routes of TodoController: @Post(), @Get(), @Get(':id'), @Put(':id'),
\* @Delete(':id') under @Controller('todos')
Route(method, item) ==
    IF method = "POST" /\ ~item THEN "create"
    ELSE IF method = "GET" /\ ~item THEN "findAll"
    ELSE IF method = "GET" /\ item THEN "findOne"
    ELSE IF method = "PUT" /\ item THEN "update"
    ELSE IF method = "DELETE" /\ item THEN "delete"
    ELSE "none"

\* the router: the handler of the route calls its service operation with
\* the parameters as they arrived; a request no route matches is answered
\* with NotFoundException ("Cannot PATCH /todos/1"), 404
Dispatch(method, item, id, body) ==
    /\ req' = [method |-> method, item |-> item]
    /\ LET op == Route(method, item)
       IN  IF op = "create" THEN SvcCreate(body)
           ELSE IF op = "findAll" THEN SvcFindAll
           ELSE IF op = "findOne" THEN SvcFindOne(id)
           ELSE IF op = "update" THEN SvcUpdate(id, body)
           ELSE IF op = "delete" THEN SvcDelete(id)
           ELSE /\ last' = Response("none", id, body, FALSE,
                                    "NotFoundException", {})
                /\ UNCHANGED <<todos, nextId, now, deleted>>

\* POST /todos -> TodoService.create
Create ==
    \E body \in DeclaredCreateBodies \cup ExtraCreateBodies(Issued) :
        /\ Dispatch("POST", FALSE, NoId, body)
        /\ UNCHANGED <<callVars, clientVars>>

\* GET /todos -> TodoService.findAll
FindAll ==
    /\ Dispatch("GET", FALSE, NoId, NoBody)
    /\ UNCHANGED <<callVars, clientVars>>

\* GET /todos/:id -> TodoService.findOne
FindOne ==
    \E id \in WellFormedIds \cup {MalformedId} :
        /\ Dispatch("GET", TRUE, id, NoBody)
        /\ UNCHANGED <<callVars, clientVars>>

\* PUT /todos/:id -> TodoService.update
Update ==
    \E r \in UpdateRequests(Issued) :
        /\ Dispatch("PUT", TRUE, r[1], r[2])
        /\ UNCHANGED <<callVars, clientVars>>

\* DELETE /todos/:id -> TodoService.delete
Delete ==
    \E id \in WellFormedIds \cup {MalformedId} :
        /\ Dispatch("DELETE", TRUE, id, NoBody)
        /\ UNCHANGED <<callVars, clientVars>>

\* PATCH /todos/:id, with a body a PUT would apply
Patch ==
    \E id \in GeneratedIds :
        /\ Dispatch("PATCH", TRUE, id, [completed |-> TRUE])
        /\ UNCHANGED <<callVars, clientVars>>

\* time passes between requests
Tick ==
    /\ now < MaxTime
    /\ now' = now + 1
    /\ UNCHANGED <<todos, nextId, deleted, last, req, callVars, clientVars>>

Next == Create \/ FindAll \/ FindOne \/ Update \/ Delete \/ Patch \/ Tick

Spec == Init /\ [][Next]_vars

-----------------------------------------------------------------------------
(* Requests served concurrently.  A handler runs up to its database call,   *)
(* and the database call of any pending handler may be the next to be        *)
(* applied.  create has two steps: new this.todoModel(dto), which generates  *)
(* the _id, and save(), which validates, stamps and inserts.  update is the  *)
(* single findOneAndUpdate the store applies atomically.                     *)

\* handlers are started in index order; their database calls commit in any
IssueCreate ==
    \E i \in CallIds, body \in ConcCreateBodies :
        /\ calls[i].pc = "idle"
        /\ \A j \in CallIds : j < i => calls[j].pc # "idle"
        /\ calls' = [calls EXCEPT ![i] =
              [op |-> "create", pc |-> "pending", id |-> nextId,
               body |-> body, hit |-> FALSE, error |-> "none"]]
        /\ nextId' = NextObjectId(nextId)
        /\ UNCHANGED <<todos, now, deleted, last, req, order, clientVars>>

CommitCreate ==
    \E i \in CallIds :
        /\ calls[i].op = "create"
        /\ calls[i].pc = "pending"
        /\ LET doc == NewDoc(calls[i].body, calls[i].id, now)
               error == IF ~Required(doc) THEN "ValidationError"
                        ELSE IF ById(doc._id) # {} THEN "MongoServerError"
                        ELSE "none"
           IN  /\ todos' = IF error = "none" THEN todos \cup {doc} ELSE todos
               /\ last' = Response("create", NoId, calls[i].body, FALSE, error,
                                   IF error = "none" THEN {doc} ELSE {})
               /\ calls' = [calls EXCEPT ![i].pc = "done", ![i].error = error]
        /\ order' = Append(order, i)
        /\ UNCHANGED <<nextId, now, deleted, req, clientVars>>

IssueUpdate ==
    \E i \in CallIds, id \in ConcTargets, body \in ConcUpdateBodies :
        /\ calls[i].pc = "idle"
        /\ \A j \in CallIds : j < i => calls[j].pc # "idle"
        /\ calls' = [calls EXCEPT ![i] =
              [op |-> "update", pc |-> "pending", id |-> id,
               body |-> body, hit |-> FALSE, error |-> "none"]]
        /\ UNCHANGED <<todos, nextId, now, deleted, last, req, order,
                       clientVars>>

CommitUpdate ==
    \E i \in CallIds :
        /\ calls[i].op = "update"
        /\ calls[i].pc = "pending"
        /\ SvcUpdate(calls[i].id, calls[i].body)
        /\ calls' = [calls EXCEPT ![i].pc = "done", ![i].hit = last'.hit,
                                  ![i].error = last'.error]
        /\ order' = Append(order, i)
        /\ UNCHANGED <<req, clientVars>>

NextConc == IssueCreate \/ CommitCreate \/ IssueUpdate \/ CommitUpdate \/ Tick

SpecConc == Init /\ [][NextConc]_vars

-----------------------------------------------------------------------------
(* The frontend: the Home component of app/page.tsx.  An async handler runs  *)
(* up to its await of fetch() in one step; the rest of it runs in a later    *)
(* step, when the promise has resolved with the response or has rejected.   *)
(* Between the two steps the request is in net: first sent, then served     *)
(* once the backend has handled it.                                          *)

serverVars == <<todos, nextId, now, deleted, last, req, calls, order>>

\* what the user types into a title input and into a description input
TitleInputs == {"", " ", "a"}
DescriptionInputs == {"", "d"}

\* String.prototype.trim on the strings of TitleInputs
Trim(s) == IF s = " " THEN "" ELSE s

\* Response.ok
Ok(status) == status >= 200 /\ status <= 299

\* the message of the alert in the catch block of each function
AlertOf(fn) ==
    CASE fn = "fetchTodos" -> "Failed to fetch todos"
      [] fn = "createTodo" -> "Failed to create todo"
      [] fn \in {"toggleComplete", "saveEdit"} -> "Failed to update todo"
      [] fn = "deleteTodo" -> "Failed to delete todo"

\* a fetch() call that has not settled: the function that made it, the :id of
\* its URL and its JSON body; status and the parsed body (a list of todos or
\* something else) once the backend has answered
Request(seq, fn, id, body) ==
    [seq |-> seq, fn |-> fn, id |-> id, body |-> body, stage |-> "sent",
     status |-> 0, list |-> FALSE, items |-> {}]

Served(r, status, list, items) ==
    [r EXCEPT !.stage = "served", !.status = status, !.list = list,
              !.items = items]

\* await response.json()
Payload(r) == [list |-> r.list, items |-> r.items]

Step(fn, phase, seq, alert) ==
    [fn |-> fn, phase |-> phase, seq |-> seq, alert |-> alert]

\* the history of the list fetch issued last
Track(r, stage) ==
    IF r.seq = lastFetch.seq
    THEN [seq |-> r.seq, stage |-> stage, list |-> r.list, items |-> r.items]
    ELSE lastFetch

\* the store when the page is opened: empty, or holding a todo created before
SeedDoc == NewDoc([title |-> "a", description |-> "d"], 1, 0)

InitSeeded ==
    /\ todos \in {{}, {SeedDoc}}
    /\ nextId = IF todos = {} THEN 1 ELSE 2
    /\ now = 0
    /\ deleted = {}
    /\ last = Response("none", NoId, NoBody, FALSE, "none", {})
    /\ req = [method |-> "none", item |-> FALSE]

InitClient == InitSeeded /\ InitCalls /\ InitPage

\* the effect of the first render has run
Mounted == nreq > 0

\* fetchTodos() up to its await of fetch(): setLoading(true), GET /todos
CallFetchTodos(pending) ==
    /\ loading' = TRUE
    /\ net' = pending \cup {Request(nreq + 1, "fetchTodos", NoId, NoBody)}
    /\ nreq' = nreq + 1
    /\ lastFetch' = [seq |-> nreq + 1, stage |-> "sent", list |-> FALSE,
                     items |-> {}]

\* a handler up to its await of fetch(), for at most limit user actions
SendWithin(limit, fn, id, body) ==
    /\ nact < limit
    /\ net' = net \cup {Request(nreq + 1, fn, id, body)}
    /\ nreq' = nreq + 1
    /\ nact' = nact + 1
    /\ ev' = Step(fn, "call", nreq + 1, "none")

Send(fn, id, body) == SendWithin(MaxActions, fn, id, body)

\* a handler that returns before its try block
Return(fn) ==
    /\ ev' = Step(fn, "return", 0, "none")
    /\ UNCHANGED <<net, nreq, nact>>

\* useEffect(() => { fetchTodos(); }, [])
Mount ==
    /\ ~Mounted
    /\ CallFetchTodos(net)
    /\ ev' = Step("fetchTodos", "call", nreq + 1, "none")
    /\ UNCHANGED <<serverVars, mirror, title, description, editingId,
                   editTitle, editDescription, nact>>

\* onChange of the title input of the create form
TypeTitle ==
    /\ Mounted
    /\ mirror.list
    /\ \E v \in TitleInputs : title' = v
    /\ ev' = NoStep
    /\ UNCHANGED <<serverVars, mirror, description, editingId, editTitle,
                   editDescription, loading, net, nreq, nact, lastFetch>>

\* onChange of the description input of the create form
TypeDescription ==
    /\ Mounted
    /\ mirror.list
    /\ \E v \in DescriptionInputs : description' = v
    /\ ev' = NoStep
    /\ UNCHANGED <<serverVars, mirror, title, editingId, editTitle,
                   editDescription, loading, net, nreq, nact, lastFetch>>

\* onChange of the title input of the edit form, rendered for the todo of
\* the list whose _id is editingId
TypeEditTitle ==
    /\ Mounted
    /\ mirror.list
    /\ \E t \in mirror.items : editingId = t._id
    /\ \E v \in TitleInputs : editTitle' = v
    /\ ev' = NoStep
    /\ UNCHANGED <<serverVars, mirror, title, description, editingId,
                   editDescription, loading, net, nreq, nact, lastFetch>>

\* onChange of the description input of the edit form
TypeEditDescription ==
    /\ Mounted
    /\ mirror.list
    /\ \E t \in mirror.items : editingId = t._id
    /\ \E v \in DescriptionInputs : editDescription' = v
    /\ ev' = NoStep
    /\ UNCHANGED <<serverVars, mirror, title, description, editingId,
                   editTitle, loading, net, nreq, nact, lastFetch>>

\* a createTodo whose guard is !title, without the trim
CreateTodoNoTrim ==
    /\ Mounted
    /\ mirror.list
    /\ IF title = ""
       THEN Return("createTodo")
       ELSE Send("createTodo", NoId,
                 [title |-> title, description |-> description])
    /\ UNCHANGED <<serverVars, pageVars, lastFetch>>

\* createTodo up to its await: onSubmit of the create form
CreateTodo ==
    /\ Mounted
    /\ mirror.list
    /\ IF Trim(title) = ""
       THEN Return("createTodo")
       ELSE Send("createTodo", NoId,
                 [title |-> title, description |-> description])
    /\ UNCHANGED <<serverVars, pageVars, lastFetch>>

\* a toggleComplete that flips the checkbox in the list before the request
\* is answered
ToggleCompleteOptimistic ==
    /\ Mounted
    /\ mirror.list
    /\ \E t \in mirror.items :
        /\ editingId # t._id
        /\ Send("toggleComplete", t._id, [completed |-> ~t.completed])
        /\ mirror' = [mirror EXCEPT !.items =
              (mirror.items \ {t}) \cup {[t EXCEPT !.completed = ~t.completed]}]
    /\ UNCHANGED <<serverVars, title, description, editingId, editTitle,
                   editDescription, loading, lastFetch>>

\* toggleComplete up to its await: onChange of the checkbox of a todo shown
\* in view mode; the handler is called with the completed of the list
ToggleComplete ==
    /\ Mounted
    /\ mirror.list
    /\ \E t \in mirror.items :
        /\ editingId # t._id
        /\ Send("toggleComplete", t._id, [completed |-> ~t.completed])
    /\ UNCHANGED <<serverVars, pageVars, lastFetch>>

\* startEdit: the Edit button of a todo shown in view mode
StartEdit ==
    /\ Mounted
    /\ mirror.list
    /\ \E t \in mirror.items :
        /\ editingId # t._id
        /\ editingId' = t._id
        /\ editTitle' = t.title
        /\ editDescription' =
              IF "description" \in DOMAIN t THEN t.description ELSE ""
    /\ ev' = NoStep
    /\ UNCHANGED <<serverVars, mirror, title, description, loading, net, nreq,
                   nact, lastFetch>>

\* saveEdit up to its await: the Save button of the todo in edit mode
SaveEdit ==
    /\ Mounted
    /\ mirror.list
    /\ \E t \in mirror.items :
        /\ editingId = t._id
        /\ IF Trim(editTitle) = ""
           THEN Return("saveEdit")
           ELSE Send("saveEdit", t._id,
                     [title |-> editTitle, description |-> editDescription])
    /\ UNCHANGED <<serverVars, pageVars, lastFetch>>

\* cancelEdit: the Cancel button of the todo in edit mode
CancelEdit ==
    /\ Mounted
    /\ mirror.list
    /\ \E t \in mirror.items : editingId = t._id
    /\ editingId' = NoId
    /\ editTitle' = ""
    /\ editDescription' = ""
    /\ ev' = NoStep
    /\ UNCHANGED <<serverVars, mirror, title, description, loading, net, nreq,
                   nact, lastFetch>>

\* deleteTodo up to its await: the Delete button of a todo shown in view
\* mode, and the answer to confirm()
DeleteTodo ==
    /\ Mounted
    /\ mirror.list
    /\ \E t \in mirror.items, confirmed \in BOOLEAN :
        /\ editingId # t._id
        /\ IF ~confirmed
           THEN Return("deleteTodo")
           ELSE Send("deleteTodo", t._id, NoBody)
    /\ UNCHANGED <<serverVars, pageVars, lastFetch>>

\* the catch block of a handler other than fetchTodos: fetch() rejected,
\* before or after the backend handled the request
Rejected(r) ==
    /\ net' = net \ {r}
    /\ ev' = Step(r.fn, "reject", r.seq, AlertOf(r.fn))
    /\ UNCHANGED <<serverVars, pageVars, nreq, nact, lastFetch>>

\* a fetchTodos that drops the response of any list fetch but the one issued
\* last
FetchTodosResolveLatestOnly ==
    \E r \in net :
        /\ r.fn = "fetchTodos"
        /\ r.stage = "served"
        /\ mirror' = IF r.seq = lastFetch.seq THEN Payload(r) ELSE mirror
        /\ loading' = FALSE
        /\ net' = net \ {r}
        /\ lastFetch' = Track(r, "received")
        /\ ev' = Step(r.fn, "resolve", r.seq, "none")
        /\ UNCHANGED <<serverVars, title, description, editingId, editTitle,
                       editDescription, nreq, nact>>

\* fetchTodos after its awaits: setTodos(data), setLoading(false)
FetchTodosResolve ==
    \E r \in net :
        /\ r.fn = "fetchTodos"
        /\ r.stage = "served"
        /\ mirror' = Payload(r)
        /\ loading' = FALSE
        /\ net' = net \ {r}
        /\ lastFetch' = Track(r, "received")
        /\ ev' = Step(r.fn, "resolve", r.seq, "none")
        /\ UNCHANGED <<serverVars, title, description, editingId, editTitle,
                       editDescription, nreq, nact>>

\* fetchTodos, catch and finally: alert, setLoading(false)
FetchTodosReject ==
    \E r \in net :
        /\ r.fn = "fetchTodos"
        /\ loading' = FALSE
        /\ net' = net \ {r}
        /\ lastFetch' = Track(r, "failed")
        /\ ev' = Step(r.fn, "reject", r.seq, AlertOf(r.fn))
        /\ UNCHANGED <<serverVars, mirror, title, description, editingId,
                       editTitle, editDescription, nreq, nact>>

\* a createTodo that calls fetchTodos() whatever the status of the response
CreateTodoResolveAlways ==
    \E r \in net :
        /\ r.fn = "createTodo"
        /\ r.stage = "served"
        /\ title' = IF Ok(r.status) THEN "" ELSE title
        /\ description' = IF Ok(r.status) THEN "" ELSE description
        /\ CallFetchTodos(net \ {r})
        /\ ev' = Step(r.fn, "resolve", r.seq, "none")
        /\ UNCHANGED <<serverVars, mirror, editingId, editTitle,
                       editDescription, nact>>

\* createTodo after its await: if (response.ok) clear the form, fetchTodos()
CreateTodoResolve ==
    \E r \in net :
        /\ r.fn = "createTodo"
        /\ r.stage = "served"
        /\ IF Ok(r.status)
           THEN /\ title' = ""
                /\ description' = ""
                /\ CallFetchTodos(net \ {r})
           ELSE /\ net' = net \ {r}
                /\ UNCHANGED <<title, description, loading, nreq, lastFetch>>
        /\ ev' = Step(r.fn, "resolve", r.seq, "none")
        /\ UNCHANGED <<serverVars, mirror, editingId, editTitle,
                       editDescription, nact>>

CreateTodoReject == \E r \in net : r.fn = "createTodo" /\ Rejected(r)

\* toggleComplete after its await: fetchTodos()
ToggleCompleteResolve ==
    \E r \in net :
        /\ r.fn = "toggleComplete"
        /\ r.stage = "served"
        /\ CallFetchTodos(net \ {r})
        /\ ev' = Step(r.fn, "resolve", r.seq, "none")
        /\ UNCHANGED <<serverVars, mirror, title, description, editingId,
                       editTitle, editDescription, nact>>

\* a toggleComplete whose catch block sends the request again
ToggleCompleteRejectRetry ==
    \E r \in net :
        /\ r.fn = "toggleComplete"
        /\ net' = (net \ {r}) \cup {Request(r.seq, r.fn, r.id, r.body)}
        /\ ev' = Step(r.fn, "reject", r.seq, AlertOf(r.fn))
        /\ UNCHANGED <<serverVars, pageVars, nreq, nact, lastFetch>>

ToggleCompleteReject == \E r \in net : r.fn = "toggleComplete" /\ Rejected(r)

\* saveEdit after its await: leave edit mode, clear the edit form,
\* fetchTodos()
SaveEditResolve ==
    \E r \in net :
        /\ r.fn = "saveEdit"
        /\ r.stage = "served"
        /\ editingId' = NoId
        /\ editTitle' = ""
        /\ editDescription' = ""
        /\ CallFetchTodos(net \ {r})
        /\ ev' = Step(r.fn, "resolve", r.seq, "none")
        /\ UNCHANGED <<serverVars, mirror, title, description, nact>>

SaveEditReject == \E r \in net : r.fn = "saveEdit" /\ Rejected(r)

\* deleteTodo after its await: fetchTodos()
DeleteTodoResolve ==
    \E r \in net :
        /\ r.fn = "deleteTodo"
        /\ r.stage = "served"
        /\ CallFetchTodos(net \ {r})
        /\ ev' = Step(r.fn, "resolve", r.seq, "none")
        /\ UNCHANGED <<serverVars, mirror, title, description, editingId,
                       editTitle, editDescription, nact>>

DeleteTodoReject == \E r \in net : r.fn = "deleteTodo" /\ Rejected(r)

\* the backend handles a request of the page and answers it
Answer(r, list) ==
    /\ net' = (net \ {r})
                \cup {Served(r, last'.status, list,
                             IF list THEN last'.result ELSE {})}
    /\ lastFetch' = Track(Served(r, last'.status, list,
                                 IF list THEN last'.result ELSE {}), "served")
    /\ ev' = NoStep
    /\ UNCHANGED <<callVars, pageVars, nreq, nact>>

\* GET /todos
ServeFindAll ==
    \E r \in net :
        /\ r.fn = "fetchTodos"
        /\ r.stage = "sent"
        /\ Dispatch("GET", FALSE, r.id, r.body)
        /\ Answer(r, TRUE)

\* POST /todos
ServeCreate ==
    \E r \in net :
        /\ r.fn = "createTodo"
        /\ r.stage = "sent"
        /\ Dispatch("POST", FALSE, r.id, r.body)
        /\ Answer(r, FALSE)

\* PUT /todos/:id
ServeUpdate ==
    \E r \in net :
        /\ r.fn \in {"toggleComplete", "saveEdit"}
        /\ r.stage = "sent"
        /\ Dispatch("PUT", TRUE, r.id, r.body)
        /\ Answer(r, FALSE)

\* DELETE /todos/:id
ServeDelete ==
    \E r \in net :
        /\ r.fn = "deleteTodo"
        /\ r.stage = "sent"
        /\ Dispatch("DELETE", TRUE, r.id, r.body)
        /\ Answer(r, FALSE)

\* the query of the handler rejects because MongoDB cannot be reached: the
\* exception is not an HttpException, so Nest answers 500 with a JSON object
ServeUnavailable ==
    \E r \in net :
        /\ r.stage = "sent"
        /\ last' = Response(
              CASE r.fn = "fetchTodos" -> "findAll"
                [] r.fn = "createTodo" -> "create"
                [] r.fn \in {"toggleComplete", "saveEdit"} -> "update"
                [] r.fn = "deleteTodo" -> "delete",
              r.id, r.body, FALSE, "MongooseError", {})
        /\ Answer(r, FALSE)
        /\ UNCHANGED <<todos, nextId, now, deleted, req>>

NextClient ==
    \/ Mount
    \/ TypeTitle
    \/ TypeDescription
    \/ TypeEditTitle
    \/ TypeEditDescription
    \/ CreateTodo
    \/ ToggleComplete
    \/ StartEdit
    \/ SaveEdit
    \/ CancelEdit
    \/ DeleteTodo
    \/ FetchTodosResolve
    \/ FetchTodosReject
    \/ CreateTodoResolve
    \/ CreateTodoReject
    \/ ToggleCompleteResolve
    \/ ToggleCompleteReject
    \/ SaveEditResolve
    \/ SaveEditReject
    \/ DeleteTodoResolve
    \/ DeleteTodoReject
    \/ ServeFindAll
    \/ ServeCreate
    \/ ServeUpdate
    \/ ServeDelete
    \/ ServeUnavailable

SpecClient == InitClient /\ [][NextClient]_vars

------------------------------------------------------------------------------
(* The checkbox of one todo, pressed repeatedly *)

\* the page over a store that holds one todo that is not completed
InitToggle == InitClient /\ todos = {SeedDoc}

\* toggleComplete up to its await, for a press of the checkbox among at
\* most MaxToggles
ToggleRepeated ==
    /\ Mounted
    /\ mirror.list
    /\ \E t \in mirror.items :
        /\ editingId # t._id
        /\ SendWithin(MaxToggles, "toggleComplete", t._id,
                      [completed |-> ~t.completed])
    /\ UNCHANGED <<serverVars, pageVars, lastFetch>>

NextToggle ==
    \/ Mount
    \/ ToggleRepeated
    \/ ToggleCompleteResolve
    \/ FetchTodosResolve
    \/ ServeFindAll
    \/ ServeUpdate

SpecToggle == InitToggle /\ [][NextToggle]_vars

-----------------------------------------------------------------------------
(* Properties *)

InvalidTitle(body) == "title" \notin DOMAIN body \/ body.title = ""

\* C1: round trip. A create whose body carries a non-empty title and any
\* description (or none), followed by findOne with the returned _id, yields a
\* Task with that title and description, completed false and
\* createdAt = updatedAt.
C1_RoundTrip ==
    [][(/\ last.op = "create"
        /\ last.error = "none"
        /\ DOMAIN last.body \subseteq CreateDtoFields
        /\ last'.op = "findOne"
        /\ \E c \in last.result : last'.id = c._id)
       => \E t \in last'.result :
            /\ last'.result = {t}
            /\ last'.status = 200
            /\ Restrict(t, CreateDtoFields) = last.body
            /\ t.completed = FALSE
            /\ t.createdAt = t.updatedAt]_vars

C1_Witness ==
    /\ last.op = "findOne"
    /\ last.hit
    /\ \E t \in last.result :
        /\ t.title = "a"
        /\ "description" \in DOMAIN t
        /\ t.completed = FALSE
        /\ t.createdAt = t.updatedAt

C3_NotFoundIs404 ==
    (/\ last.op \in {"findOne", "update", "delete"}
     /\ last.id \in WellFormedIds
     /\ ~last.hit)
    => (last.status = 404 /\ last.error = "NotFoundError")

\* C4: once delete(id) has succeeded the Task never reappears in the
\* collection, and findOne, update and delete of that id are answered with
\* NotFoundError.
C4_DeletedStaysGone ==
    /\ \A i \in deleted : ById(i) = {}
    /\ (/\ last.op \in {"findOne", "update", "delete"}
        /\ last.id \in deleted
        /\ ~last.hit)
       => (last.status = 404 /\ last.error = "NotFoundError")

\* C5: partial update. An update of a stored Task T whose body carries a
\* subset of {title, description, completed} returns and stores a Task that
\* has the supplied value on every supplied field, equals T on every other
\* field except updatedAt, and has updatedAt >= T.updatedAt.
C5_PartialUpdate ==
    [][(/\ last'.op = "update"
        /\ last'.hit
        /\ DOMAIN last'.body \subseteq UpdateDtoFields)
       => \E T \in ById(last'.id) : \E U \in todos' :
            /\ U._id = T._id
            /\ last'.result = {U}
            /\ DOMAIN U = DOMAIN T \cup DOMAIN last'.body
            /\ \A k \in DOMAIN last'.body : U[k] = last'.body[k]
            /\ \A k \in DOMAIN T \ (DOMAIN last'.body \cup {"updatedAt"}) :
                    U[k] = T[k]
            /\ U.updatedAt >= T.updatedAt]_vars

\* C6: a create with a missing or empty title fails with ValidationError and
\* leaves the collection unchanged; a create whose body is a non-empty title
\* alone succeeds and stores a Task without description.
C6_CreateValidation ==
    [][/\ (last'.op = "create" /\ InvalidTitle(last'.body))
            => (last'.error = "ValidationError" /\ last'.result = {}
                /\ todos' = todos)
       /\ (last'.op = "create" /\ DOMAIN last'.body = {"title"}
           /\ ~InvalidTitle(last'.body))
            => \E d \in todos' :
                 /\ last'.error = "none"
                 /\ last'.result = {d}
                 /\ d.title = last'.body.title
                 /\ "description" \notin DOMAIN d
      ]_vars

C6_Witness ==
    /\ last.op = "create"
    /\ last.error = "ValidationError"
    /\ "title" \in DOMAIN last.body
    /\ last.body.title = ""
    /\ todos # {}

\* C7: no stored Task has an empty title.
C7_NoEmptyTitle == \A d \in todos : d.title # ""

\* C8: a POST whose body has a missing or empty title is answered with 400,
\* and a successful create with 201 and the stored Task.
C8_CreateStatus ==
    last.op = "create"
    => /\ InvalidTitle(last.body) => last.status = 400
       /\ last.error = "none"
            => (last.status = 201 /\ \E d \in todos : last.result = {d})

\* C9: every stored Task has createdAt <= updatedAt, and no step decreases
\* the updatedAt of a Task.
C9_TimestampsOrdered ==
    [][\A d \in todos' :
        /\ d.createdAt <= d.updatedAt
        /\ \A b \in ById(d._id) : b.updatedAt <= d.updatedAt]_vars

\* C10: the _id and the createdAt of a stored Task never change: through
\* every step a stored Task either keeps both or is the Task a delete removes.
C10_IdAndCreatedAtImmutable ==
    [][\A d \in todos :
        \/ \E e \in todos' : e._id = d._id /\ e.createdAt = d.createdAt
        \/ /\ last'.op = "delete"
           /\ last'.id = d._id
           /\ \A e \in todos' : e._id # d._id]_vars

C10_Witness ==
    /\ last.op = "update"
    /\ last.hit
    /\ last.error = "none"
    /\ "createdAt" \in DOMAIN last.body
    /\ \E d \in last.result : d.createdAt # last.body.createdAt

CreateCalls == {i \in CallIds : calls[i].op = "create"}

C12_ConcurrentCreates ==
    /\ \A i, j \in CreateCalls : i # j => calls[i].id # calls[j].id
    /\ (\A i \in CallIds : calls[i].pc # "pending")
        => /\ \A i \in CreateCalls : calls[i].error = "none"
           /\ Cardinality(todos) = Cardinality(CreateCalls)
           /\ {d._id : d \in todos} = {calls[i].id : i \in CreateCalls}

C12_Witness ==
    /\ \A i \in CallIds : calls[i].op = "create" /\ calls[i].pc = "done"
    /\ Len(order) = NCalls
    /\ order[1] = NCalls
    /\ Cardinality(todos) = NCalls

\* C13: concurrent updates of one Task are applied one after another in the
\* order they reach the store: every field of the stored Task has the value
\* of the last applied update that supplied it, or its value from the create
\* when no applied update supplied it, so updates of disjoint fields all
\* take effect.
AppliedUpdates(id, f) ==
    {k \in 1..Len(order) :
        /\ calls[order[k]].op = "update"
        /\ calls[order[k]].id = id
        /\ calls[order[k]].hit
        /\ f \in DOMAIN calls[order[k]].body}

Latest(ks) == CHOOSE k \in ks : \A j \in ks : j <= k

CreatedValue(id, f) ==
    LET c == CHOOSE i \in CreateCalls : calls[i].id = id
    IN  IF f \in DOMAIN calls[c].body THEN {calls[c].body[f]}
        ELSE IF f = "completed" THEN {FALSE} ELSE {}

C13_LastWriteWins ==
    \A d \in todos : \A f \in UpdateDtoFields :
        LET ks == AppliedUpdates(d._id, f)
            stored == IF f \in DOMAIN d THEN {d[f]} ELSE {}
        IN  stored = IF ks = {} THEN CreatedValue(d._id, f)
                     ELSE {calls[order[Latest(ks)]].body[f]}

C13_Witness ==
    /\ Len(order) = 3
    /\ calls[order[1]].op = "create" /\ calls[order[1]].body = [title |-> "a"]
    /\ calls[order[2]].op = "update" /\ calls[order[3]].op = "update"
    /\ order[2] > order[3]
    /\ calls[order[2]].body = [title |-> "a", description |-> "d"]
    /\ calls[order[3]].body = [completed |-> TRUE]
    /\ \E d \in todos :
        "description" \in DOMAIN d /\ d.description = "d" /\ d.completed

Mutations == {"createTodo", "saveEdit", "toggleComplete", "deleteTodo"}

\* the fetch() call r settles in this step: its handler goes on after the
\* await, or into its catch block, and the call is gone
Completes(r) == r \in net /\ \A q \in net' : q.seq # r.seq

\* fetchTodos() is called in this step
Refetches ==
    /\ nreq' = nreq + 1
    /\ \E q \in net' :
        q.seq = nreq + 1 /\ q.fn = "fetchTodos" /\ q.stage = "sent"

\* the call r has failed: fetch() rejected, or the status of the response is
\* not a success
Failed(r) == ev'.phase = "reject" \/ ~Ok(r.status)

\* C14 (as claimed): every mutating action whose HTTP call is answered calls
\* fetchTodos, whatever the status of the response.
C14_RefetchUnconditional ==
    [][\A r \in net :
        (r.fn \in Mutations /\ Completes(r) /\ ev'.phase = "resolve")
           => Refetches]_vars

\* C14 (amended): when the HTTP call of toggleComplete, saveEdit or deleteTodo
\* is answered, fetchTodos is called whatever the status of the response;
\* when the call of createTodo is answered, fetchTodos is called only if the
\* status is a success; when the call is rejected, fetchTodos is not called.
C14_RefetchAfterResponse ==
    [][\A r \in net :
        (r.fn \in Mutations /\ Completes(r))
           => (Refetches <=> /\ ev'.phase = "resolve"
                             /\ r.fn = "createTodo" => Ok(r.status))]_vars

C14_Witness ==
    /\ ev.fn = "createTodo"
    /\ ev.phase = "resolve"
    /\ nreq = ev.seq
    /\ title # ""
    /\ last.op = "create"
    /\ last.status = 500

\* C15: every request that fails, by a rejected fetch() or by a response
\* whose status is not a success, makes its function show an alert.
C15_FailureAlerts ==
    [][\A r \in net : (Completes(r) /\ Failed(r)) => ev'.alert # "none"]_vars

\* C16: a mutation that fails, by a rejected fetch() or by a response whose
\* status is not a success, leaves the list, the inputs of the create form
\* and the edit state as they were.
C16_FailureLeavesState ==
    [][\A r \in net :
        (r.fn \in Mutations /\ Completes(r) /\ Failed(r))
           => UNCHANGED <<mirror, title, description, editingId, editTitle,
                          editDescription>>]_vars

\* C17: no retry. A step sends at most one request; a mutation request is
\* sent only by a user action, one per action; a list fetch is sent only on
\* mount or by the step in which the response to a mutation request arrives,
\* one per response; the step that ends a call ends it for good, and when it
\* is a rejection nothing is sent; a request in flight is never changed, is
\* never handed to the backend again once served, and does not come back
\* once it is gone; the store changes only in the step that serves a request
\* not served before.
C17_NoRetry ==
    [][/\ nreq' \in {nreq, nreq + 1}
       /\ nact' \in {nact, nact + 1}
       /\ nact' = nact + 1
            => \E q \in net' : q.seq = nreq + 1 /\ q.fn \in Mutations
       /\ \A q \in net' :
            IF q.seq > nreq
            THEN /\ q.seq = nreq + 1
                 /\ q.stage = "sent"
                 /\ q.fn \in Mutations => nact' = nact + 1
                 /\ q.fn = "fetchTodos"
                      => \/ nreq = 0
                         \/ \E r \in net : /\ r.fn \in Mutations
                                           /\ Completes(r)
                                           /\ ev'.phase = "resolve"
            ELSE \E r \in net :
                    /\ r.seq = q.seq
                    /\ r.fn = q.fn /\ r.id = q.id /\ r.body = q.body
                    /\ r.stage = "served" => q = r
       /\ ev'.phase \in {"resolve", "reject"}
            => \E r \in net : r.seq = ev'.seq /\ Completes(r)
       /\ \A r \in net :
            (Completes(r) /\ ev'.phase = "reject")
               => (nreq' = nreq /\ net' = net \ {r})
       /\ todos' # todos
            => \E r \in net : \E q \in net' :
                 r.stage = "sent" /\ q.seq = r.seq /\ q.stage = "served"
      ]_vars

C17_Witness ==
    /\ ev.fn = "toggleComplete"
    /\ ev.phase = "reject"
    /\ ev.alert = "Failed to update todo"
    /\ net = {}
    /\ nact = 1
    /\ nreq = 2
    /\ \E d \in todos : d.completed

\* C18: whenever no request is in flight and the response to the list fetch
\* issued last has been received, the list is the payload of that response.
C18_MirrorIsLatestFetch ==
    (net = {} /\ lastFetch.stage = "received")
       => mirror = [list |-> lastFetch.list, items |-> lastFetch.items]

\* C19: when list fetches overlap, the list is the payload of the response
\* received last: the step in which a list response is received sets the
\* list to the payload of that response, whichever fetch it answers, and a
\* step in which no list response is received (a list fetch that is served,
\* or rejected) leaves the list as it is.
C19_LastReceivedWins ==
    [][/\ \A r \in net :
            (r.fn = "fetchTodos" /\ Completes(r))
               => mirror' = IF ev'.phase = "resolve" THEN Payload(r)
                            ELSE mirror
       /\ (\A r \in net : r.fn = "fetchTodos" => ~Completes(r))
            => mirror' = mirror]_vars

C19_Witness ==
    /\ net = {}
    /\ ev.fn = "fetchTodos"
    /\ ev.phase = "resolve"
    /\ ev.seq < lastFetch.seq
    /\ lastFetch.stage = "received"
    /\ lastFetch.list
    /\ mirror.list
    /\ mirror.items # lastFetch.items

\* C20: no optimistic update. The list changes only in the step in which the
\* response to a list fetch arrives, and is then the payload of that response
\* as a whole; a user action, the response to a mutation request and a
\* rejection leave it as it is.
C20_NoOptimisticUpdate ==
    [][/\ mirror' # mirror
            => \E r \in net :
                 /\ r.fn = "fetchTodos"
                 /\ r.stage = "served"
                 /\ Completes(r)
                 /\ ev' = Step("fetchTodos", "resolve", r.seq, "none")
                 /\ mirror' = Payload(r)
       /\ (nact' # nact \/ ev'.fn \in Mutations \/ ev'.phase = "reject"
           \/ ev' = NoStep)
            => mirror' = mirror]_vars

C20_Witness ==
    /\ ev.fn = "toggleComplete"
    /\ ev.phase = "resolve"
    /\ \E t \in mirror.items : \E d \in todos :
        t._id = d._id /\ t.completed # d.completed

\* C21: findAll on an empty collection, initially or after every created
\* Task has been deleted, is answered with the empty list and status 200,
\* never with an error; in general findAll never fails and returns the
\* collection.
C21_FindAllEmpty ==
    last.op = "findAll"
    => /\ last.error = "none"
       /\ last.status = 200
       /\ last.result = todos
       /\ todos = {} => last.result = {}

C21_Witness ==
    /\ last.op = "findAll"
    /\ last.status = 200
    /\ last.error = "none"
    /\ last.result = {}
    /\ todos = {}
    /\ nextId > 1
    /\ deleted = Issued

\* C22: findOne, update and delete with a malformed identifier fail with
\* NotFoundError, HTTP 404, as for a well-formed identifier that is absent,
\* and not with another error or HTTP 500.
C22_MalformedIsNotFound ==
    (last.op \in {"findOne", "update", "delete"} /\ last.id = MalformedId)
    => (last.status = 404 /\ last.error = "NotFoundError")

\* the routes the endpoint layer declares, and the operation that answered
Routed(method, item, op) ==
    (req.method = method /\ req.item = item) => last.op = op

C24_CreateAssignsNewId ==
    [][/\ \A d, e \in todos' : d._id = e._id => d = e
       /\ (last'.op = "create" /\ last'.error = "none" /\ todos' # todos)
            => \A d \in todos' \ todos :
                 d._id \notin Issued /\ d._id \notin deleted]_vars

\* C25: every Task a successful create returns has completed = false,
\* whatever the body of the request carries.
C25_CreatedNotCompleted ==
    (last.op = "create" /\ last.error = "none")
    => \A d \in last.result : d.completed = FALSE

\* the requests a step sends for one of the handlers fns
Sent(fns) ==
    {r \in net' : r.fn \in fns /\ \A q \in net : q.seq # r.seq}

\* C26: a createTodo with a blank title and a saveEdit with a blank editTitle
\* return without sending a request and without changing the state of the
\* page, so that no create or edit request ever carries a blank title.
C26_TitleGuard ==
    [][/\ Trim(title) = "" => Sent({"createTodo"}) = {}
       /\ Trim(editTitle) = "" => Sent({"saveEdit"}) = {}
       /\ (ev'.phase = "return" /\ ev'.fn = "createTodo")
            => Trim(title) = "" /\ UNCHANGED <<serverVars, pageVars, net, nreq>>
       /\ (ev'.phase = "return" /\ ev'.fn = "saveEdit")
            => /\ Trim(editTitle) = ""
               /\ UNCHANGED <<serverVars, pageVars, net, nreq>>
       /\ \A r \in Sent({"createTodo", "saveEdit"}) :
            Trim(r.body.title) # ""]_vars

\* the create form holds a title of whitespace only, createTodo has returned
\* early and nothing was ever sent for it
C26_Witness ==
    /\ title = " "
    /\ ev.phase = "return"
    /\ ev.fn = "createTodo"
    /\ nact = 0
    /\ \A r \in net : r.fn = "fetchTodos"

\* the list fetches that have been issued and not completed
FetchesInFlight == {r \in net : r.fn = "fetchTodos"}

\* C27: loading is true whenever at least one list fetch is in flight and
\* false once every list fetch has completed, also when fetches overlap.
C27_LoadingTracksFetches ==
    loading = (FetchesInFlight # {})

\* C28: the list mirror is in every reachable state a list of Task records;
\* the answer to a list fetch that is not a success or not a list never
\* replaces it.
C28_MirrorIsList ==
    /\ mirror.list
    /\ \A t \in mirror.items :
         {"_id", "title", "completed"} \subseteq DOMAIN t

\* C29: editingId is null or the identifier of a Task of the list mirror;
\* startEdit sets editingId and copies the title and the description of the
\* Task into the edit inputs; cancelEdit resets editingId to null and clears
\* the edit inputs, without a request.
C29_EditingIdInMirror ==
    editingId = NoId \/ \E t \in mirror.items : t._id = editingId

\* the toggleComplete requests the backend has not handled yet
TogglesUnserved == {r \in net : r.fn = "toggleComplete" /\ r.stage = "sent"}

\* C30: every toggleComplete flips the completed of its Task on the server:
\* once the backend has handled every toggle sent, the Task is completed
\* after an odd number of toggles and has its original value after an even
\* number, also when a toggle is fired before the refetch of the one before
\* has arrived.
C30_ToggleFlips ==
    TogglesUnserved = {}
    => \A d \in todos :
         d.completed = IF nact % 2 = 1 THEN ~SeedDoc.completed
                                       ELSE SeedDoc.completed

====
